---- MODULE Spec2Model ----
(***************************************************************************)
(* Session/token lifecycle (AuthService, AuthProvider), the route guard    *)
(* and the dual-mode data access layer of async-code-web.                  *)
(***************************************************************************)
EXTENDS Integers, Sequences, FiniteSets, Bags, TLC

\* ------------------------------------------------------------- bounds
NumUsers == 2
NumTokens == 3
MaxCalls == 2
MaxId == 1
MaxTasks == 3

\* ---------------------------------------------------------- constants
\* null / undefined of the source, for tokens and users
None == 0
Users == 1..NumUsers
Tokens == 1..NumTokens

\* the backend's association of a bearer token with an account
UserOf(t) == ((t - 1) % NumUsers) + 1

\* the `error` field of a non-2xx JSON body: undefined, empty or a text
Undefined == "undefined"
Messages == {Undefined, "", "Invalid credentials"}

\* JavaScript truthiness of the `error` field, the left operand of ||
Truthy(m) == m \notin {Undefined, ""}

\* what a fetch to the backend can come to: the fetch rejects ("netfail"), or a
\* response arrives with response.ok true or false and a body that
\* response.json() can or cannot read
Outcomes == {"ok", "nonok", "netfail", "ok-unreadable", "nonok-unreadable"}

\* an argument or option that the caller left out (undefined)
Undef == -1
\* row ids a caller can ask for; 0 is the falsy one
Ids == 0..MaxId

\* the remote store's fault codes: "row not found" and two others
NotFound == "PGRST116"
Faults == {NotFound, "42501", "08006"}

\* tasks.status of the schema, and the task rows joined to a project
Statuses == {"pending", "running", "completed"}
SeqsUpTo(S, n) == UNION {[1..k -> S] : k \in 0..n}
TaskLists == SeqsUpTo(Statuses, MaxTasks)

VARIABLES
    token,       \* AuthService.token, the in-memory mirror
    store,       \* localStorage slot 'auth_token'
    hasWindow,   \* typeof window !== 'undefined'
    user,        \* AuthProvider state: user
    loading,     \* AuthProvider state: loading
    mounted,     \* the provider's effect has run
    calls,       \* bag of backend requests in flight
    afterLogout, \* "no": the last operation a caller started was not logout;
                 \* "clean": it was logout; "relogged": it was logout and a
                 \* login/register response has stored a token since
    env,                 \* NEXT_PUBLIC_SUPABASE_URL and _ANON_KEY are both set
    variant,             \* which of the two getSupabase modules is built
    supabaseInstance,    \* module cell: a client exists
    supabaseInitialized, \* module cell of the first variant
    firstMode,   \* history: what the first getSupabase() call of the process
                 \* returned, "unset" before it
    BACKEND_URL, \* module constant of the forwarding endpoint, fixed at load
    prefs,       \* localStorage slot 'user_preferences'
    route,       \* the page the router shows: "/" (guarded) or "/signin"
    obs          \* the last event, as its caller observes it

authVars == <<token, store, hasWindow, user, loading, mounted, calls, afterLogout>>
configVars == <<env, variant, supabaseInstance, supabaseInitialized, firstMode, BACKEND_URL>>
vars == <<token, store, hasWindow, user, loading, mounted, calls, afterLogout,
          env, variant, supabaseInstance, supabaseInitialized, firstMode, BACKEND_URL,
          prefs, route, obs>>

\* ------------------------------------------------------- observations
\* no request has gone through the forwarding endpoint
NoRelay ==
    [request |-> [readable |-> FALSE, json |-> <<>>], backend |-> "none",
     reply |-> [kind |-> "none", status |-> 0, readable |-> FALSE, body |-> <<>>],
     response |-> [status |-> 0, body |-> <<>>, forwards |-> 0, sentBody |-> <<>>]]

Quiet ==
    [ev |-> "init", op |-> "", via |-> "", sent |-> None, out |-> "",
     res |-> None, tok |-> None, msg |-> Undefined, err |-> "", net |-> FALSE,
     prevLogout |-> "no", pe |-> "", pt |-> None,
     conf |-> FALSE, view |-> "", redirect |-> "",
     id |-> Undef, found |-> FALSE, list |-> <<>>, fault |-> "", queries |-> 0,
     filter |-> Undef, range |-> <<>>,
     arg |-> "", val |-> "", prevPrefs |-> "", wrote |-> FALSE,
     ident |-> None, inOwner |-> Undef, owner |-> None, inserted |-> FALSE,
     first |-> FALSE, envRead |-> FALSE, relay |-> NoRelay]

\* a label of the event that `o` records, for the event that follows it
EventLabel(o) ==
    IF o.ev = "ret" /\ o.op = "login" THEN "loginOk"
    ELSE IF o.ev = "ret" /\ o.op = "register" THEN "registerOk"
    ELSE "other"

\* -------------------------------------------------------- AuthService
\* a setToken that writes the durable slot and forgets the in-memory field
setToken_StorageOnly(t) ==
    /\ token' = token
    /\ store' = IF hasWindow THEN t ELSE store

\* a setToken that forgets localStorage.setItem
setToken_MemoryOnly(t) ==
    /\ token' = t
    /\ store' = store

\* private setToken(token)
setToken(t) ==
    /\ token' = t
    /\ store' = IF hasWindow THEN t ELSE store

\* a clearToken that forgets the in-memory field
clearToken_StorageOnly ==
    /\ token' = token
    /\ store' = IF hasWindow THEN None ELSE store

\* a clearToken that forgets localStorage.removeItem
clearToken_MemoryOnly ==
    /\ token' = None
    /\ store' = store

\* private clearToken()
clearToken ==
    /\ token' = None
    /\ store' = IF hasWindow THEN None ELSE store

\* error.error || 'Registration failed' / error.error || 'Login failed'
DefaultMessage(op) == IF op = "register" THEN "Registration failed" ELSE "Login failed"

\* a register / login that drops the backend's message for its default
authOutcome_DefaultOnly(op, out, acct, t, m) ==
    CASE out = "netfail" ->
           [kind |-> "throw", err |-> "TypeError: fetch failed", tok |-> None, res |-> None]
      [] out \in {"ok-unreadable", "nonok-unreadable"} ->
           [kind |-> "throw", err |-> "SyntaxError: invalid JSON", tok |-> None, res |-> None]
      [] out = "nonok" ->
           [kind |-> "throw", err |-> DefaultMessage(op), tok |-> None, res |-> None]
      [] OTHER ->
           [kind |-> "ret", err |-> "", tok |-> t, res |-> acct]

\* register / login once the fetch has come to `out`: the backend's body is
\* {user: acct, token: t} on success and {error: m} otherwise. Nothing catches
\* a rejected fetch or a body that response.json() cannot read.
authOutcome(op, out, acct, t, m) ==
    CASE out = "netfail" ->
           [kind |-> "throw", err |-> "TypeError: fetch failed", tok |-> None, res |-> None]
      [] out \in {"ok-unreadable", "nonok-unreadable"} ->
           [kind |-> "throw", err |-> "SyntaxError: invalid JSON", tok |-> None, res |-> None]
      [] out = "nonok" ->
           [kind |-> "throw", err |-> IF Truthy(m) THEN m ELSE DefaultMessage(op),
            tok |-> None, res |-> None]
      [] OTHER ->
           [kind |-> "ret", err |-> "", tok |-> t, res |-> acct]

\* a getCurrentUser without its try/catch: a rejected fetch or an unreadable
\* body raises to the caller
getCurrentUserOutcome_NoCatch(out, sent) ==
    CASE out = "ok" -> [kind |-> "ret", res |-> UserOf(sent), clear |-> FALSE]
      [] out \in {"nonok", "nonok-unreadable"} -> [kind |-> "ret", res |-> None, clear |-> TRUE]
      [] OTHER -> [kind |-> "throw", res |-> None, clear |-> FALSE]

\* getCurrentUser once the probe sent with token `sent` has come to `out`:
\* !response.ok clears the token, and the catch clause does so for a rejected
\* fetch and for an unreadable body
getCurrentUserOutcome(out, sent) ==
    CASE out = "ok" -> [kind |-> "ret", res |-> UserOf(sent), clear |-> FALSE]
      [] OTHER      -> [kind |-> "ret", res |-> None, clear |-> TRUE]

\* ------------------------------------------------------- AuthProvider
\* the three observable states of the provider
ProviderState ==
    IF loading THEN <<"loading", None>>
    ELSE IF user # None THEN <<"authenticated", user>>
    ELSE <<"anonymous", None>>

\* a continuation that leaves the loading state only for a user
deliverUser_OnlyForUser(via, u) ==
    IF via = "effect"
    THEN /\ user' = u
         /\ loading' = (u = None)
    ELSE UNCHANGED <<user, loading>>

\* .then((user) => { setUser(user); setLoading(false) }) of the provider's
\* effect; another caller of getCurrentUser leaves the provider alone
deliverUser(via, u) ==
    IF via = "effect"
    THEN /\ user' = u
         /\ loading' = FALSE
    ELSE UNCHANGED <<user, loading>>

\* a provider that forgets setUser after login / register
providerAuth_NoSetUser(r) ==
    [kind |-> r.kind, err |-> r.err, setUser |-> FALSE, user |-> r.res]

\* const { user } = await authService.login(...); setUser(user): what the
\* provider's caller gets from the service's outcome `r`
providerAuth(r) ==
    [kind |-> r.kind, err |-> r.err, setUser |-> r.kind = "ret", user |-> r.res]

InFlight == BagCardinality(calls)
Sent(c) == calls (+) SetToBag({c})
Answered(c) == calls (-) SetToBag({c})

\* authService.getCurrentUser(), by the provider's effect or another caller
getCurrentUser(via) ==
    /\ UNCHANGED <<token, store, hasWindow>>
    /\ afterLogout' = "no"
    /\ IF token = None
       THEN /\ deliverUser(via, None)
            /\ calls' = calls
            /\ obs' = [Quiet EXCEPT !.ev = "ret", !.op = "getCurrentUser", !.via = via,
                          !.out = "notoken", !.prevLogout = afterLogout,
                          !.pe = EventLabel(obs), !.pt = obs.tok]
       ELSE /\ InFlight < MaxCalls
            /\ UNCHANGED <<user, loading>>
            /\ calls' = Sent([op |-> "getCurrentUser", arg |-> token, via |-> via,
                              pe |-> EventLabel(obs), pt |-> obs.tok])
            /\ obs' = [Quiet EXCEPT !.ev = "call", !.op = "getCurrentUser", !.via = via,
                          !.sent = token, !.net = TRUE, !.prevLogout = afterLogout,
                          !.pe = EventLabel(obs), !.pt = obs.tok]

\* useEffect(() => authService.getCurrentUser().then(...), [])
AuthProviderEffect ==
    /\ ~mounted
    /\ mounted' = TRUE
    /\ getCurrentUser("effect")
    /\ UNCHANGED <<configVars, prefs, route>>

\* any other caller of the exported authService
DirectGetCurrentUser ==
    /\ mounted
    /\ UNCHANGED mounted
    /\ getCurrentUser("direct")
    /\ UNCHANGED <<configVars, prefs, route>>

\* the probe's response reaches getCurrentUser
GetCurrentUserResponse(c, out) ==
    LET r == getCurrentUserOutcome(out, c.arg) IN
    /\ c.op = "getCurrentUser"
    /\ calls' = Answered(c)
    /\ IF r.clear THEN clearToken ELSE UNCHANGED <<token, store>>
    /\ IF r.kind = "ret" THEN deliverUser(c.via, r.res) ELSE UNCHANGED <<user, loading>>
    /\ obs' = [Quiet EXCEPT !.ev = r.kind, !.op = "getCurrentUser", !.via = c.via,
                  !.sent = c.arg, !.out = out, !.res = r.res,
                  !.pe = c.pe, !.pt = c.pt]
    /\ UNCHANGED <<hasWindow, mounted, afterLogout>>
    /\ UNCHANGED <<configVars, prefs, route>>

EffectProbeResponse ==
    \E c \in BagToSet(calls), out \in Outcomes :
        /\ c.via = "effect"
        /\ GetCurrentUserResponse(c, out)

DirectProbeResponse ==
    \E c \in BagToSet(calls), out \in Outcomes :
        /\ c.via = "direct"
        /\ GetCurrentUserResponse(c, out)

\* AuthProvider.login / AuthProvider.register: the request leaves
ProviderAuthCall(op, acct) ==
    /\ mounted
    /\ InFlight < MaxCalls
    /\ calls' = Sent([op |-> op, arg |-> acct, via |-> "provider", pe |-> "", pt |-> None])
    /\ afterLogout' = "no"
    /\ obs' = [Quiet EXCEPT !.ev = "call", !.op = op, !.via = "provider", !.net = TRUE]
    /\ UNCHANGED <<token, store, hasWindow, user, loading, mounted>>
    /\ UNCHANGED <<configVars, prefs, route>>

Login == \E acct \in Users : ProviderAuthCall("login", acct)

Register == \E acct \in Users : ProviderAuthCall("register", acct)

\* what the backend can answer to the credentials of account `acct`: a token
\* of that account, a refusal with a message, or no usable answer
Replies(acct) ==
    {[out |-> "ok", tok |-> t, msg |-> Undefined] : t \in {x \in Tokens : UserOf(x) = acct}}
    \cup {[out |-> "nonok", tok |-> None, msg |-> m] : m \in Messages}
    \cup {[out |-> o, tok |-> None, msg |-> Undefined] :
             o \in {"netfail", "ok-unreadable", "nonok-unreadable"}}

\* handleSubmit of the sign-in page, the caller of login / register there:
\* await login(...); router.push('/'), skipped when the await throws
handleSubmit(kind, page) ==
    IF kind = "ret" /\ page = "/signin" THEN "/" ELSE page

\* the response reaches authService.login / register and, through it, the
\* provider and the page that called it
AuthResponse ==
    \E c \in BagToSet(calls) :
        /\ c.op \in {"login", "register"}
        /\ \E a \in Replies(c.arg) :
            LET r == authOutcome(c.op, a.out, c.arg, a.tok, a.msg)
                p == providerAuth(r)
            IN
            /\ calls' = Answered(c)
            /\ IF r.kind = "ret"
               THEN /\ setToken(r.tok)
                    /\ afterLogout' = IF afterLogout = "no" THEN "no" ELSE "relogged"
               ELSE UNCHANGED <<token, store, afterLogout>>
            /\ user' = IF p.setUser THEN p.user ELSE user
            /\ obs' = [Quiet EXCEPT !.ev = p.kind, !.op = c.op, !.via = c.via,
                          !.out = a.out, !.res = r.res, !.tok = r.tok, !.msg = a.msg,
                          !.err = p.err]
            /\ route' = handleSubmit(p.kind, route)
            /\ UNCHANGED <<hasWindow, loading, mounted>>
            /\ UNCHANGED <<configVars, prefs>>

\* AuthProvider.signOut: authService.logout(); setUser(null)
SignOut ==
    /\ mounted
    /\ clearToken
    /\ user' = None
    /\ afterLogout' = "clean"
    /\ obs' = [Quiet EXCEPT !.ev = "ret", !.op = "signOut", !.via = "provider"]
    /\ UNCHANGED <<hasWindow, loading, mounted, calls>>
    /\ UNCHANGED <<configVars, prefs, route>>

\* another tab of the same origin, or the user, rewrites or removes the item
\* 'auth_token'; this AuthService instance is not told
StorageChange ==
    /\ hasWindow
    /\ \E v \in (Tokens \cup {None}) \ {store} : store' = v
    /\ obs' = [Quiet EXCEPT !.ev = "storage"]
    /\ UNCHANGED <<token, hasWindow, user, loading, mounted, calls, afterLogout>>
    /\ UNCHANGED <<configVars, prefs, route>>

\* ---------------------------------------------------------- getSupabase
\* what getSupabase() returns: whether a client exists
getSupabaseValue ==
    IF variant = 1
    THEN (IF supabaseInitialized THEN supabaseInstance ELSE env)
    ELSE (IF supabaseInstance THEN TRUE ELSE env)

\* whether this getSupabase() call reads process.env
getSupabaseReadsEnv ==
    IF variant = 1 THEN ~supabaseInitialized ELSE ~supabaseInstance

ModeOf(client) == IF client THEN "configured" ELSE "unconfigured"

\* what getSupabase() does to the module's cells
getSupabase ==
    /\ supabaseInstance' = getSupabaseValue
    /\ supabaseInitialized' = IF variant = 1 THEN TRUE ELSE supabaseInitialized
    /\ firstMode' = IF firstMode = "unset" THEN ModeOf(getSupabaseValue) ELSE firstMode
    /\ UNCHANGED <<env, variant, BACKEND_URL>>

\* ------------------------------------------------------- ProtectedRoute
\* a guard that looks at the user before the configuration
ProtectedRoute_UserFirst(u, l, supabase) ==
    [view |-> IF l THEN "loading"
              ELSE IF u = None THEN "nothing"
              ELSE "content",
     redirect |-> IF ~l /\ u = None THEN "/signin" ELSE ""]

\* a guard that tests the configuration before the loading flag
ProtectedRoute_ConfigFirst(u, l, supabase) ==
    [view |-> IF ~supabase THEN "content"
              ELSE IF l THEN "loading"
              ELSE IF u = None THEN "nothing"
              ELSE "content",
     redirect |-> IF supabase /\ ~l /\ u = None THEN "/signin" ELSE ""]

\* one render of the guard and the effect that follows it
ProtectedRoute(u, l, supabase) ==
    [view |-> IF l THEN "loading"
              ELSE IF ~supabase THEN "content"
              ELSE IF u = None THEN "nothing"
              ELSE "content",
     redirect |-> IF supabase /\ ~l /\ u = None THEN "/signin" ELSE ""]

RenderProtectedRoute ==
    LET g == ProtectedRoute(user, loading, getSupabaseValue) IN
    /\ mounted
    /\ route = "/"
    /\ route' = IF g.redirect # "" THEN g.redirect ELSE route
    /\ getSupabase
    /\ obs' = [Quiet EXCEPT !.ev = "render", !.op = "ProtectedRoute",
                  !.conf = getSupabaseValue, !.view = g.view, !.redirect = g.redirect]
    /\ UNCHANGED <<authVars, prefs>>

\* -------------------------------------------------------- sign-in page
\* a sign-in page that leaves as soon as the provider has settled
SignIn_NoUserTest(u, l) ==
    [view |-> IF l THEN "loading" ELSE IF u # None THEN "nothing" ELSE "form",
     redirect |-> IF ~l THEN "/" ELSE ""]

\* one render of the sign-in page and the effect that follows it
SignIn(u, l) ==
    [view |-> IF l THEN "loading" ELSE IF u # None THEN "nothing" ELSE "form",
     redirect |-> IF u # None /\ ~l THEN "/" ELSE ""]

RenderSignIn ==
    LET g == SignIn(user, loading) IN
    /\ mounted
    /\ route = "/signin"
    /\ route' = IF g.redirect # "" THEN g.redirect ELSE route
    /\ obs' = [Quiet EXCEPT !.ev = "render", !.op = "SignIn",
                  !.view = g.view, !.redirect = g.redirect]
    /\ UNCHANGED <<authVars, configVars, prefs>>

\* ------------------------------------------------------ SupabaseService
\* what the remote store answers to a .single() query for row `id`
RowReplies == {[fault |-> "", found |-> TRUE]} \cup {[fault |-> f, found |-> FALSE] : f \in Faults}

\* what it answers to the projects query: rows with their joined tasks, no
\* data, or a fault
ProjectLists == {<<>>} \cup {<<[id |-> 1, tasks |-> ts]>> : ts \in TaskLists}
ProjectReplies ==
    {[fault |-> "", hasData |-> TRUE, data |-> d] : d \in ProjectLists}
    \cup {[fault |-> "", hasData |-> FALSE, data |-> <<>>]}
    \cup {[fault |-> f, hasData |-> FALSE, data |-> <<>>] : f \in Faults}

\* what it answers to the tasks query, rows by id
TaskReplies ==
    {[fault |-> "", hasData |-> TRUE, data |-> d] : d \in {<<>>, <<1>>, <<2, 1>>}}
    \cup {[fault |-> "", hasData |-> FALSE, data |-> <<>>]}
    \cup {[fault |-> f, hasData |-> FALSE, data |-> <<>>] : f \in Faults}

\* project.tasks.filter(t => t.status === st).length
CountStatus(ts, st) == Cardinality({i \in DOMAIN ts : ts[i] = st})

\* statistics that take every task that is not completed for an active one
withStats_ActiveIsRest(project) ==
    [id |-> project.id,
     tasks |-> project.tasks,
     task_count |-> Len(project.tasks),
     completed_tasks |-> CountStatus(project.tasks, "completed"),
     active_tasks |-> Len(project.tasks) - CountStatus(project.tasks, "completed")]

\* { ...project, task_count, completed_tasks, active_tasks }
withStats(project) ==
    [id |-> project.id,
     tasks |-> project.tasks,
     task_count |-> Len(project.tasks),
     completed_tasks |-> CountStatus(project.tasks, "completed"),
     active_tasks |-> CountStatus(project.tasks, "running")]

Absent(n) == [kind |-> "ret", found |-> FALSE, list |-> <<>>, err |-> "", queries |-> n]

\* a getProject that lost its first line and uses the null client
getProjectResult_NoGuard(supabase, q) ==
    IF ~supabase
    THEN [kind |-> "throw", found |-> FALSE, list |-> <<>>,
          err |-> "TypeError: null client", queries |-> 0]
    ELSE IF q.fault = "" THEN [Absent(1) EXCEPT !.found = TRUE]
    ELSE IF q.fault = NotFound THEN Absent(1)
    ELSE [Absent(1) EXCEPT !.kind = "throw", !.err = q.fault]

\* static async getProjects()
getProjectsResult(supabase, q) ==
    IF ~supabase THEN Absent(0)
    ELSE IF q.fault # "" THEN Absent(1)
    ELSE IF q.hasData
         THEN [Absent(1) EXCEPT !.list = [i \in DOMAIN q.data |-> withStats(q.data[i])]]
    ELSE Absent(1)

\* static async getProject(id)
getProjectResult(supabase, q) ==
    IF ~supabase THEN Absent(0)
    ELSE IF q.fault = "" THEN [Absent(1) EXCEPT !.found = TRUE]
    ELSE IF q.fault = NotFound THEN Absent(1)
    ELSE [Absent(1) EXCEPT !.kind = "throw", !.err = q.fault]

\* the filter and the row range getTasks puts on its query
tasksQuery(projectId, limit, offset) ==
    LET start == IF offset \in {Undef, 0} THEN 0 ELSE offset IN
    [filter |-> IF projectId \in {Undef, 0} THEN Undef ELSE projectId,
     range |-> IF limit \in {Undef, 0} THEN <<>> ELSE <<start, start + limit - 1>>]

\* a getTasks without its try/catch
getTasksResult_Rethrow(supabase, q) ==
    IF ~supabase THEN Absent(0)
    ELSE IF q.fault # "" THEN [Absent(1) EXCEPT !.kind = "throw", !.err = q.fault]
    ELSE IF q.hasData THEN [Absent(1) EXCEPT !.list = q.data]
    ELSE Absent(1)

\* static async getTasks(projectId?, options?)
getTasksResult(supabase, q) ==
    IF ~supabase THEN Absent(0)
    ELSE IF q.fault # "" THEN Absent(1)
    ELSE IF q.hasData THEN [Absent(1) EXCEPT !.list = q.data]
    ELSE Absent(1)

\* static async getTask(id): its catch clause swallows every fault
getTaskResult(supabase, q) ==
    IF ~supabase THEN Absent(0)
    ELSE IF q.fault = "" THEN [Absent(1) EXCEPT !.found = TRUE]
    ELSE Absent(1)

\* static async getUserProfile(), auth.getUser() resolving to `ident`
getUserProfileResult(supabase, ident, q) ==
    IF ~supabase THEN Absent(0)
    ELSE IF ident = None THEN Absent(0)
    ELSE IF q.fault = "" THEN [Absent(1) EXCEPT !.found = TRUE]
    ELSE Absent(1)

\* ------------------------------------------- SupabaseService, writes
StoreUnavailable == "Database not available in local development mode"
Unauthenticated == "No authenticated user"

\* values a caller passes as `preferences`: left out, null, false, an empty
\* object, an object with a setting
PrefValues == {"undefined", "null", "false", "emptyObject", "darkTheme"}

\* JavaScript truthiness of `updates.preferences`
PrefTruthy(p) == p \notin {"undefined", "null", "false"}

\* JSON.stringify(updates.preferences), for the values that get that far
JSONstringify(p) ==
    CASE p = "emptyObject" -> "{}"
      [] p = "darkTheme" -> "{\"theme\":\"dark\"}"
      [] p = "null" -> "null"
      [] p = "false" -> "false"
      [] OTHER -> "undefined"

\* { ...a, ...b }: b's fields win
Spread(a, b) ==
    [f \in DOMAIN a \cup DOMAIN b |-> IF f \in DOMAIN b THEN b[f] ELSE a[f]]

\* what callers hand to createProject: with or without a user_id of their own
ProjectInputs ==
    {[name |-> "demo"]} \cup {[name |-> "demo", user_id |-> u] : u \in Users}

\* the user_id a record carries, if any
OwnerOf(row) == IF "user_id" \in DOMAIN row THEN row.user_id ELSE Undef

\* what a write leaves behind, besides what its caller sees
NoWrite(n) ==
    [kind |-> "ret", found |-> FALSE, list |-> <<>>, err |-> "", queries |-> n,
     inserted |-> FALSE, owner |-> None, wrote |-> FALSE, text |-> "", val |-> ""]

Thrown(n, e) == [NoWrite(n) EXCEPT !.kind = "throw", !.err = e]

\* a createProject that trusts the caller's user_id
createProjectResult_InputWins(supabase, ident, projectData, q) ==
    IF ~supabase THEN Thrown(0, StoreUnavailable)
    ELSE IF ident = None THEN Thrown(0, Unauthenticated)
    ELSE LET row == Spread([user_id |-> ident], projectData)
             sent == [NoWrite(1) EXCEPT !.inserted = TRUE, !.owner = row.user_id]
         IN IF q.fault # "" THEN [sent EXCEPT !.kind = "throw", !.err = q.fault]
            ELSE [sent EXCEPT !.found = TRUE]

\* static async createProject(projectData), auth.getUser() resolving to `ident`
createProjectResult(supabase, ident, projectData, q) ==
    IF ~supabase THEN Thrown(0, StoreUnavailable)
    ELSE IF ident = None THEN Thrown(0, Unauthenticated)
    ELSE LET row == Spread(projectData, [user_id |-> ident])
             sent == [NoWrite(1) EXCEPT !.inserted = TRUE, !.owner = row.user_id]
         IN IF q.fault # "" THEN [sent EXCEPT !.kind = "throw", !.err = q.fault]
            ELSE [sent EXCEPT !.found = TRUE]

\* static async updateProject(id, updates)
updateProjectResult(supabase, q) ==
    IF ~supabase THEN Thrown(0, StoreUnavailable)
    ELSE IF q.fault # "" THEN Thrown(1, q.fault)
    ELSE [NoWrite(1) EXCEPT !.found = TRUE]

\* a deleteProject that answers like the reads when there is no client
deleteProjectResult_Silent(supabase, q) ==
    IF ~supabase THEN NoWrite(0)
    ELSE IF q.fault # "" THEN Thrown(1, q.fault)
    ELSE NoWrite(1)

\* static async deleteProject(id)
deleteProjectResult(supabase, q) ==
    IF ~supabase THEN Thrown(0, StoreUnavailable)
    ELSE IF q.fault # "" THEN Thrown(1, q.fault)
    ELSE NoWrite(1)

\* static async updateUserProfile(updates)
updateUserProfileResult(supabase, window, updates, ident, q) ==
    IF ~supabase
    THEN IF window /\ PrefTruthy(updates.preferences)
         THEN [NoWrite(0) EXCEPT !.wrote = TRUE, !.text = JSONstringify(updates.preferences),
                                 !.val = updates.preferences]
         ELSE [NoWrite(0) EXCEPT !.val = updates.preferences]
    ELSE IF ident = None THEN Thrown(0, Unauthenticated)
    ELSE IF q.fault # "" THEN Thrown(1, q.fault)
    ELSE [NoWrite(1) EXCEPT !.found = TRUE]

\* a call of the service: the getter reads getSupabase(), the operation runs
\* to its end and the caller sees `r`; `o` holds the call's arguments and
\* what went to the remote store
ServedObs(op, r, remote, o) ==
    /\ getSupabase
    /\ obs' = [o EXCEPT !.ev = r.kind, !.op = op, !.conf = getSupabaseValue,
                  !.net = remote, !.found = r.found, !.list = r.list, !.err = r.err,
                  !.queries = r.queries,
                  !.fault = IF r.queries > 0 THEN o.fault ELSE "",
                  !.first = (firstMode = "unset"), !.envRead = getSupabaseReadsEnv]
    /\ UNCHANGED <<authVars, route>>

Served(op, r, remote, o) ==
    /\ ServedObs(op, r, remote, o)
    /\ UNCHANGED prefs

\* a call of one of the writes: `w` is its outcome, `o` its arguments
Written(op, w, o) ==
    /\ ServedObs(op, w, getSupabaseValue,
                 [o EXCEPT !.inserted = w.inserted, !.owner = w.owner, !.wrote = w.wrote,
                           !.val = w.val, !.prevPrefs = prefs])
    /\ prefs' = IF w.wrote THEN w.text ELSE prefs

GetProjects ==
    \E q \in ProjectReplies :
        LET r == getProjectsResult(getSupabaseValue, q) IN
        Served("getProjects", r, r.queries > 0, [Quiet EXCEPT !.fault = q.fault])

GetProject ==
    \E id \in Ids, q \in RowReplies :
        LET r == getProjectResult(getSupabaseValue, q) IN
        Served("getProject", r, r.queries > 0, [Quiet EXCEPT !.id = id, !.fault = q.fault])

GetTasks ==
    \E projectId \in Ids \cup {Undef}, limit \in {Undef, 0, 1, 2}, offset \in {Undef, 0, 1},
       q \in TaskReplies :
        LET r == getTasksResult(getSupabaseValue, q)
            query == tasksQuery(projectId, limit, offset)
        IN
        Served("getTasks", r, r.queries > 0,
               [Quiet EXCEPT !.id = projectId, !.fault = q.fault,
                             !.filter = IF r.queries > 0 THEN query.filter ELSE Undef,
                             !.range = IF r.queries > 0 THEN query.range ELSE <<>>])

GetTask ==
    \E id \in Ids, q \in RowReplies :
        LET r == getTaskResult(getSupabaseValue, q) IN
        Served("getTask", r, r.queries > 0, [Quiet EXCEPT !.id = id, !.fault = q.fault])

\* auth.getUser() reaches the remote store whenever a client exists
GetUserProfile ==
    \E ident \in Users \cup {None}, q \in RowReplies :
        LET r == getUserProfileResult(getSupabaseValue, ident, q) IN
        Served("getUserProfile", r, getSupabaseValue,
               [Quiet EXCEPT !.res = IF getSupabaseValue THEN ident ELSE None,
                             !.fault = q.fault])

CreateProject ==
    \E projectData \in ProjectInputs, ident \in Users \cup {None}, q \in RowReplies :
        Written("createProject",
                createProjectResult(getSupabaseValue, ident, projectData, q),
                [Quiet EXCEPT !.ident = IF getSupabaseValue THEN ident ELSE None,
                              !.inOwner = OwnerOf(projectData), !.fault = q.fault])

UpdateProject ==
    \E id \in Ids, q \in RowReplies :
        Written("updateProject", updateProjectResult(getSupabaseValue, q),
                [Quiet EXCEPT !.id = id, !.fault = q.fault])

DeleteProject ==
    \E id \in Ids, q \in RowReplies :
        Written("deleteProject", deleteProjectResult(getSupabaseValue, q),
                [Quiet EXCEPT !.id = id, !.fault = q.fault])

UpdateUserProfile ==
    \E P \in PrefValues, ident \in Users \cup {None}, q \in RowReplies :
        Written("updateUserProfile",
                updateUserProfileResult(getSupabaseValue, hasWindow, [preferences |-> P],
                                        ident, q),
                [Quiet EXCEPT !.arg = P, !.fault = q.fault,
                              !.ident = IF getSupabaseValue THEN ident ELSE None])

\* the deployment's environment gains or loses the store's address and key
EnvChange ==
    /\ env' = ~env
    /\ obs' = [Quiet EXCEPT !.ev = "env"]
    /\ UNCHANGED <<authVars, prefs, route, variant, supabaseInstance, supabaseInitialized,
                   firstMode, BACKEND_URL>>

\* ------------------------------------------- /api/validate-token POST
\* process.env.BACKEND_URL: not set, set to nothing, set to an address
BackendEnv == {Undefined, "", "http://api.internal:8000", "http://localhost:5000"}

\* process.env.BACKEND_URL || 'http://backend:5000'
backendUrl(e) == IF Truthy(e) THEN e ELSE "http://backend:5000"

\* the statuses and the JSON bodies the backend answers /validate-token with
HttpStatuses == {200, 400, 401, 500}
BackendBodies == {[status |-> "success"], [error |-> "Invalid token"]}

\* what the fetch to the backend comes to: it rejects, or a response arrives
\* whose body response.json() can or cannot read
BackendReplies ==
    {[kind |-> "netfail", status |-> 0, readable |-> FALSE, body |-> <<>>]}
    \cup {[kind |-> "answer", status |-> st, readable |-> TRUE, body |-> b] :
              st \in HttpStatuses, b \in BackendBodies}
    \cup {[kind |-> "answer", status |-> st, readable |-> FALSE, body |-> <<>>] :
              st \in HttpStatuses}

\* the request's body: JSON carrying a token or null, or text request.json()
\* rejects
RequestBodies ==
    {[readable |-> TRUE, json |-> [github_token |-> t]] : t \in Tokens \cup {None}}
    \cup {[readable |-> FALSE, json |-> <<>>]}

\* the catch clause's answer
errorResponse(url, errorMessage, forwards) ==
    [status |-> 500,
     body |-> [error |-> <<"Failed to connect to backend service at ", url, ": ",
                           errorMessage>>,
               status |-> "error"],
     forwards |-> forwards, sentBody |-> <<>>]

\* export async function POST(request)
POSTResponse(url, request, reply) ==
    IF ~request.readable
    THEN errorResponse(url, "Unexpected token in JSON", 0)
    ELSE IF reply.kind = "netfail"
    THEN [errorResponse(url, "fetch failed", 1) EXCEPT !.sentBody = request.json]
    ELSE IF ~reply.readable
    THEN [errorResponse(url, "Unexpected end of JSON input", 1)
             EXCEPT !.sentBody = request.json]
    ELSE [status |-> reply.status, body |-> reply.body, forwards |-> 1,
          sentBody |-> request.json]

POST ==
    \E request \in RequestBodies, reply \in BackendReplies :
        LET r == POSTResponse(BACKEND_URL, request, reply) IN
        /\ obs' = [Quiet EXCEPT !.ev = "ret", !.op = "POST", !.net = (r.forwards > 0),
                      !.relay = [request |-> request,
                                 backend |-> IF r.forwards > 0 THEN reply.kind ELSE "none",
                                 reply |-> IF r.forwards > 0 THEN reply
                                           ELSE NoRelay.reply,
                                 response |-> r]]
        /\ UNCHANGED <<authVars, configVars, prefs, route>>

\* ---------------------------------------------------------------- specs
InitAuth ==
    /\ hasWindow \in BOOLEAN
    /\ store \in (IF hasWindow THEN Tokens \cup {None} ELSE {None})
    /\ token = store
    /\ user = None
    /\ loading = TRUE
    /\ mounted = FALSE
    /\ calls = EmptyBag
    /\ afterLogout = "no"
    /\ prefs = ""
    /\ obs = Quiet

InitConfig ==
    /\ supabaseInstance = FALSE
    /\ supabaseInitialized = FALSE
    /\ firstMode = "unset"

\* the session manager and its callers; the remote store plays no part
Init ==
    /\ InitAuth
    /\ InitConfig
    /\ env = FALSE
    /\ variant = 1
    /\ BACKEND_URL = backendUrl(Undefined)
    /\ route = "/"

Next ==
    \/ AuthProviderEffect
    \/ DirectGetCurrentUser
    \/ EffectProbeResponse
    \/ DirectProbeResponse
    \/ Login
    \/ Register
    \/ AuthResponse
    \/ SignOut

Spec == Init /\ [][Next]_vars

\* the session manager's callers and a durable slot that others write too
NextMirror ==
    \/ AuthProviderEffect
    \/ EffectProbeResponse
    \/ Login
    \/ Register
    \/ AuthResponse
    \/ SignOut
    \/ StorageChange

SpecMirror == Init /\ [][NextMirror]_vars

\* the application: the provider is the session manager's only caller, and
\* the guard renders
InitApp ==
    /\ InitAuth
    /\ InitConfig
    /\ env \in BOOLEAN
    /\ variant \in {1, 2}
    /\ BACKEND_URL = backendUrl(Undefined)
    /\ route \in {"/", "/signin"}

NextApp ==
    \/ AuthProviderEffect
    \/ EffectProbeResponse
    \/ Login
    \/ Register
    \/ AuthResponse
    \/ SignOut
    \/ RenderProtectedRoute
    \/ RenderSignIn

SpecApp == InitApp /\ [][NextApp]_vars

\* the data access layer's reads: no session manager call is made
InitService ==
    /\ store = None
    /\ token = None
    /\ user = None
    /\ loading = TRUE
    /\ mounted = FALSE
    /\ calls = EmptyBag
    /\ afterLogout = "no"
    /\ prefs = ""
    /\ obs = Quiet
    /\ route = "/"
    /\ InitConfig

InitData ==
    /\ InitService
    /\ hasWindow \in BOOLEAN
    /\ env \in BOOLEAN
    /\ variant \in {1, 2}
    /\ BACKEND_URL = backendUrl(Undefined)

NextData ==
    \/ GetProjects
    \/ GetProject
    \/ GetTasks
    \/ GetTask
    \/ GetUserProfile
    \/ EnvChange

SpecData == InitData /\ [][NextData]_vars

\* the data access layer's writes and its identity-bound read
NextWrites ==
    \/ CreateProject
    \/ UpdateProject
    \/ DeleteProject
    \/ UpdateUserProfile
    \/ GetUserProfile
    \/ EnvChange

SpecWrites == InitData /\ [][NextWrites]_vars

\* the forwarding endpoint, a server module of its own
InitRelay ==
    /\ InitService
    /\ hasWindow = FALSE
    /\ env = FALSE
    /\ variant = 1
    /\ BACKEND_URL \in {backendUrl(e) : e \in BackendEnv}

NextRelay == POST

SpecRelay == InitRelay /\ [][NextRelay]_vars

\* the backend answers the provider's probe
SpecAppLive == SpecApp /\ WF_vars(AuthProviderEffect) /\ WF_vars(EffectProbeResponse)

\* ---------------------------------------------------------------- claims
\* getCurrentUser has just been called: it returned at once or sent its probe
GcuInvoked ==
    /\ obs.op = "getCurrentUser"
    /\ obs.ev = "call" \/ obs.out = "notoken"

\* getCurrentUser has just come back from its probe
GcuAnswered ==
    /\ obs.op = "getCurrentUser"
    /\ obs.ev \in {"ret", "throw"}
    /\ obs.out # "notoken"

\* C1: with the provider mounted and no register/login/getCurrentUser request
\* in flight, the provider's user is present iff the session manager holds a
\* token
C1_SessionAtomicity ==
    (mounted /\ calls = EmptyBag) => ((user # None) <=> (token # None))

\* C2 as stated: getCurrentUser called when logout was the last operation a
\* caller started returns absent and sends no request, whatever was in flight
C2_LogoutThenProbe_AnyInFlight ==
    (GcuInvoked /\ obs.prevLogout # "no")
        => (obs.ev = "ret" /\ obs.res = None /\ ~obs.net)

\* C2 amended: getCurrentUser called when logout was the last operation a
\* caller started, and no login or register response has stored a token since
\* that logout, returns absent and sends no request
C2_LogoutThenProbe ==
    (GcuInvoked /\ obs.prevLogout = "clean")
        => (obs.ev = "ret" /\ obs.res = None /\ ~obs.net)

\* C2 witness: such a call, made while another request is still in flight
C2_Witness ==
    /\ GcuInvoked
    /\ obs.prevLogout = "clean"
    /\ obs.out = "notoken"
    /\ calls # EmptyBag

\* C3 as stated: the getCurrentUser call that directly follows a completed
\* login sends the token login returned and returns that token's user
C3_WriteThrough_AlwaysUser ==
    (obs.op = "getCurrentUser" /\ obs.pe = "loginOk")
        => /\ obs.out # "notoken"
           /\ obs.sent = obs.pt
           /\ obs.ev = "call" \/ obs.res = UserOf(obs.pt)

\* C3 amended: the getCurrentUser call that directly follows a completed
\* login sends its probe with the token login returned; it returns that
\* token's user when the probe is answered with success and a readable body,
\* and absent otherwise
C3_WriteThrough ==
    (obs.op = "getCurrentUser" /\ obs.pe = "loginOk")
        => /\ obs.out # "notoken"
           /\ obs.sent = obs.pt
           /\ obs.ev = "call" => obs.net
           /\ GcuAnswered => /\ obs.ev = "ret"
                              /\ obs.res = IF obs.out = "ok" THEN UserOf(obs.pt) ELSE None

\* C3 witness: that call has returned the user of the token login issued,
\* a token other than the one held at construction
C3_Witness ==
    /\ GcuAnswered
    /\ obs.pe = "loginOk"
    /\ obs.out = "ok"
    /\ obs.res = UserOf(obs.pt)
    /\ obs.sent = obs.pt

\* C4: when the probe got a non-success status or a network failure, then as
\* getCurrentUser returns neither the in-memory token nor the durable slot
\* holds the token the probe was sent with, and absent was returned
C4_SelfHealing ==
    (GcuAnswered /\ obs.out \in {"nonok", "nonok-unreadable", "netfail"})
        => /\ token # obs.sent
           /\ store # obs.sent
           /\ obs.ev = "ret"
           /\ obs.res = None

\* C4 witness: a probe sent with the stored token has failed, in a browser
C4_Witness ==
    /\ GcuAnswered
    /\ obs.out \in {"nonok", "netfail"}
    /\ hasWindow
    /\ obs.sent # None
    /\ obs.res = None

\* C5: the guard's outcome for (loading, configured, user) is: loading view
\* and no redirect while loading; content when not configured; nothing and a
\* redirect to the sign-in page when configured with no user; content when
\* configured with a user. The redirect happens in that third case only.
C5_GuardTable ==
    (obs.ev = "render" /\ obs.op = "ProtectedRoute")
        => /\ loading => (obs.view = "loading" /\ obs.redirect = "")
           /\ (~loading /\ ~obs.conf) => (obs.view = "content" /\ obs.redirect = "")
           /\ (~loading /\ obs.conf /\ user = None)
                  => (obs.view = "nothing" /\ obs.redirect = "/signin")
           /\ (~loading /\ obs.conf /\ user # None)
                  => (obs.view = "content" /\ obs.redirect = "")

\* C5 witness: an unconfigured deployment with no user renders the content
C5_Witness ==
    /\ obs.ev = "render"
    /\ obs.op = "ProtectedRoute"
    /\ ~loading
    /\ ~obs.conf
    /\ user = None
    /\ obs.view = "content"
    /\ obs.redirect = ""

\* C6: loading starts true, turns false only as the getCurrentUser call of
\* the provider's effect resolves, never turns true again, and, the backend
\* answering that probe, does turn false
C6_LoadingOnce ==
    /\ loading = TRUE
    /\ [][(loading /\ ~loading')
            => (obs'.op = "getCurrentUser" /\ obs'.via = "effect" /\ obs'.ev = "ret")]_vars
    /\ [][~loading => ~loading']_vars
    /\ <>(~loading)

\* C6 witness: the probe sent by the effect has resolved and loading is false
C6_Witness ==
    /\ ~loading
    /\ obs.op = "getCurrentUser"
    /\ obs.via = "effect"
    /\ obs.ev = "ret"
    /\ obs.out = "ok"

\* C7 as stated: from every provider state a successful login or register
\* leaves the provider in authenticated(user), and signOut in anonymous
C7_Transitions_AnyState ==
    /\ (obs.ev = "ret" /\ obs.op \in {"login", "register"})
          => ProviderState = <<"authenticated", obs.res>>
    /\ obs.op = "signOut"
          => (ProviderState = <<"anonymous", None>> /\ ~obs.net)

\* C7 amended: a successful login or register sets the provider's user to the
\* user the backend returned, and signOut clears it in the step of the call
\* with no request; the provider is then in authenticated(user), respectively
\* anonymous, unless it is still loading, and then it stays in loading
C7_Transitions ==
    /\ (obs.ev = "ret" /\ obs.op \in {"login", "register"})
          => /\ obs.res \in Users
             /\ user = obs.res
             /\ ProviderState = IF loading THEN <<"loading", None>>
                                ELSE <<"authenticated", obs.res>>
    /\ obs.op = "signOut"
          => /\ user = None
             /\ ~obs.net
             /\ obs.ev = "ret"
             /\ ProviderState = IF loading THEN <<"loading", None>>
                                ELSE <<"anonymous", None>>

\* C7 witness: a login has succeeded after the loading state was left
C7_Witness ==
    /\ obs.ev = "ret"
    /\ obs.op = "login"
    /\ ~loading
    /\ ProviderState = <<"authenticated", obs.res>>

\* register or login has just failed on a non-success response
Rejected(o) ==
    /\ o.ev = "throw"
    /\ o.op \in {"login", "register"}
    /\ o.out \in {"nonok", "nonok-unreadable"}

\* C8 as stated: on a non-success response the error carries the backend's
\* message, or the default when the message is absent
C8_Rejected_AbsentOnly ==
    Rejected(obs)
        => obs.err = IF obs.msg # Undefined THEN obs.msg
                     ELSE IF obs.op = "register" THEN "Registration failed"
                     ELSE "Login failed"

\* C8 amended: on a non-success response with a readable JSON body the
\* provider's caller gets an error carrying the backend's message, or the
\* default when the message is absent or empty; with an unreadable body it
\* gets the parse error; in both cases the in-memory token, the durable slot
\* and the provider's user are as before the response
C8_Rejected ==
    [][Rejected(obs')
        => /\ token' = token
           /\ store' = store
           /\ user' = user
           /\ obs'.via = "provider"
           /\ obs'.out = "nonok"
                => obs'.err = IF obs'.msg \notin {Undefined, ""} THEN obs'.msg
                              ELSE IF obs'.op = "register" THEN "Registration failed"
                              ELSE "Login failed"
           /\ obs'.out = "nonok-unreadable"
                => obs'.err = "SyntaxError: invalid JSON"]_vars

\* C8 witness: a login was refused with the backend's message while a token
\* and a user were held
C8_Witness ==
    /\ Rejected(obs)
    /\ obs.op = "login"
    /\ obs.msg = "Invalid credentials"
    /\ obs.err = "Invalid credentials"
    /\ token # None
    /\ user # None

\* C9: getCurrentUser never raises; with no token held it returns absent and
\* sends nothing; it sends a probe only with a token, and every outcome of
\* the probe gives a returned user or absent
C9_NeverFails ==
    /\ obs.op = "getCurrentUser" => obs.ev \in {"call", "ret"}
    /\ (GcuInvoked /\ token = None)
          => (obs.ev = "ret" /\ obs.res = None /\ ~obs.net)
    /\ (obs.op = "getCurrentUser" /\ obs.ev = "call")
          => (obs.sent # None /\ obs.sent = token /\ obs.net)
    /\ GcuAnswered => (obs.ev = "ret" /\ obs.res \in Users \cup {None})

\* C9 witness: the fetch of a probe was rejected and getCurrentUser returned
C9_Witness ==
    /\ GcuAnswered
    /\ obs.out = "netfail"
    /\ obs.ev = "ret"
    /\ obs.res = None

\* the read operations of the data access layer
ReadOps == {"getProjects", "getTasks", "getProject", "getTask", "getUserProfile"}

\* C10: a read operation called while getSupabase() gives no client returns
\* an empty collection (getProjects, getTasks) or absent (getProject, getTask,
\* getUserProfile), raises nothing and does not contact the remote store
C10_UnconfiguredReads ==
    (obs.op \in ReadOps /\ ~obs.conf)
        => /\ obs.ev = "ret"
           /\ ~obs.found
           /\ obs.list = <<>>
           /\ ~obs.net
           /\ obs.queries = 0

\* C10 witness: getProject was called with an id in unconfigured mode and
\* returned absent
C10_Witness ==
    /\ obs.op = "getProject"
    /\ ~obs.conf
    /\ obs.id \in Ids
    /\ obs.ev = "ret"
    /\ ~obs.found

\* ------------------------------------------------------------------ C11
ProjectWrites == {"createProject", "updateProject", "deleteProject"}

\* C11 as stated: without a client the three project writes fail with
\* StoreUnavailable and change nothing, and updateUserProfile({preferences: P})
\* returns {preferences: P} with P written into the slot 'user_preferences',
\* whatever P is
C11_Unconfigured_AlwaysWrites ==
    [][/\ (obs'.op \in ProjectWrites /\ ~obs'.conf) =>
            /\ obs'.ev = "throw" /\ obs'.err = StoreUnavailable
            /\ ~obs'.net /\ obs'.queries = 0 /\ ~obs'.inserted
            /\ UNCHANGED <<authVars, prefs>>
       /\ (obs'.op = "updateUserProfile" /\ ~obs'.conf) =>
            /\ obs'.ev = "ret" /\ obs'.val = obs'.arg
            /\ prefs' = JSONstringify(obs'.arg)
            /\ ~obs'.net /\ obs'.queries = 0
            /\ UNCHANGED authVars]_vars

\* C11, amended: the three project writes fail with StoreUnavailable and
\* change nothing; updateUserProfile({preferences: P}) returns {preferences: P}
\* for every P and reaches no remote store, and the slot 'user_preferences'
\* receives the JSON text of P exactly when there is a window and P is truthy;
\* otherwise the slot keeps what it held
C11_Unconfigured ==
    [][/\ (obs'.op \in ProjectWrites /\ ~obs'.conf) =>
            /\ obs'.ev = "throw" /\ obs'.err = StoreUnavailable
            /\ ~obs'.net /\ obs'.queries = 0 /\ ~obs'.inserted
            /\ UNCHANGED <<authVars, prefs>>
       /\ (obs'.op = "updateUserProfile" /\ ~obs'.conf) =>
            /\ obs'.ev = "ret" /\ obs'.val = obs'.arg
            /\ prefs' = IF hasWindow /\ PrefTruthy(obs'.arg)
                        THEN JSONstringify(obs'.arg) ELSE prefs
            /\ ~obs'.net /\ obs'.queries = 0
            /\ UNCHANGED authVars]_vars

\* a falsy P has just been returned while the slot keeps an earlier write
C11_Witness ==
    /\ obs.op = "updateUserProfile" /\ ~obs.conf /\ obs.ev = "ret"
    /\ obs.arg = "false" /\ obs.val = "false"
    /\ obs.prevPrefs = JSONstringify("darkTheme") /\ prefs = obs.prevPrefs

\* ------------------------------------------------------------------ C12
\* C12: with a client, getProject(id) and getTask(id) return the row when the
\* store finds it, return absent exactly when the store reports "row not
\* found", and throw the store's fault for every other fault
C12_ByIdFaults ==
    (obs.op \in {"getProject", "getTask"} /\ obs.conf) =>
        /\ obs.queries = 1
        /\ obs.fault = "" => (obs.ev = "ret" /\ obs.found)
        /\ obs.fault = NotFound => (obs.ev = "ret" /\ ~obs.found)
        /\ obs.fault \notin {"", NotFound} => (obs.ev = "throw" /\ obs.err = obs.fault)

\* ------------------------------------------------------------------ C13
\* C13: with a client, getProjects and getTasks send one query and return to
\* their caller whatever the store answers; when the query faults, whatever
\* the fault, they return the empty list
C13_ListsBestEffort ==
    (obs.op \in {"getProjects", "getTasks"} /\ obs.conf) =>
        /\ obs.ev = "ret"
        /\ obs.queries = 1
        /\ obs.fault # "" => obs.list = <<>>

\* the tasks query has just failed on the connection and the caller got []
C13_Witness ==
    /\ obs.op = "getTasks" /\ obs.conf /\ obs.net
    /\ obs.fault = "08006"
    /\ obs.ev = "ret" /\ obs.list = <<>>

\* ------------------------------------------------------------------ C14
\* C14: with a client, createProject fails with 'No authenticated user' and
\* sends no insert when auth.getUser() resolves no user; otherwise the one row
\* it sends to insert carries the session user's id as user_id, whatever
\* user_id the caller's input carried
C14_OwnerFromSession ==
    (obs.op = "createProject" /\ obs.conf) =>
        /\ obs.ident = None =>
             /\ obs.ev = "throw" /\ obs.err = Unauthenticated
             /\ ~obs.inserted /\ obs.queries = 0
        /\ obs.ident # None =>
             /\ obs.inserted /\ obs.queries = 1
             /\ obs.owner = obs.ident

\* a caller signed in as user 1 passed user_id 2 and the row was stored for 1
C14_Witness ==
    /\ obs.op = "createProject" /\ obs.conf /\ obs.ev = "ret" /\ obs.found
    /\ obs.ident = 1 /\ obs.inOwner = 2
    /\ obs.inserted /\ obs.owner = 1

\* ------------------------------------------------------------------ C15
\* C15: every request to the forwarding endpoint gets a response, after at
\* most one fetch to the backend, and the response is one of two: the backend
\* answered and its JSON body and status come back unchanged, or the fetch
\* failed in transport and the response is 500 with {error, status: 'error'},
\* the error text holding BACKEND_URL
C15_Forwarding ==
    obs.op = "POST" =>
        LET x == obs.relay IN
        /\ obs.ev = "ret"
        /\ x.response.forwards <= 1
        /\ \/ /\ x.backend = "answer"
              /\ x.response.status = x.reply.status
              /\ x.response.body = x.reply.body
           \/ /\ x.backend = "netfail"
              /\ x.response.status = 500
              /\ x.response.body.status = "error"
              /\ \E i \in DOMAIN x.response.body.error :
                     x.response.body.error[i] = BACKEND_URL

\* ------------------------------------------------------------------ C16
\* C16: the first getSupabase() call of the process reads the environment and
\* fixes the mode; every later call returns that mode, and reads no
\* environment, whatever has become of the environment since
C16_ModeOnce ==
    obs.op \in ReadOps =>
        /\ ModeOf(obs.conf) = firstMode
        /\ obs.envRead <=> obs.first

\* ------------------------------------------------------------------ C17
\* an operation that ran setToken or clearToken has just completed
MirrorWritten(o) ==
    /\ o.ev = "ret"
    /\ \/ o.op \in {"login", "register", "signOut"}
       \/ o.op = "getCurrentUser" /\ o.out \notin {"ok", "notoken"}

\* C17: AuthService.token equals the slot 'auth_token' at construction and, in
\* a browser, each time a login, register, logout or failed probe has
\* completed; the field changes only in those operations, to the token they
\* were given or to null, so a slot that others rewrite is never read again
C17_Mirror ==
    /\ [](obs.ev = "init" => token = store)
    /\ []((hasWindow /\ MirrorWritten(obs)) => token = store)
    /\ [][token' # token => (MirrorWritten(obs') /\ token' \in {None, obs'.tok})]_vars

\* a login has completed in a browser: the field and the slot hold its token
C17_Witness ==
    /\ hasWindow /\ obs.op = "login" /\ obs.ev = "ret"
    /\ token = obs.tok /\ store = token /\ token # None
    /\ afterLogout = "no" /\ user # None

\* ------------------------------------------------------------------ C18
IsCompleted(st) == st = "completed"
IsRunning(st) == st = "running"

\* C18: with a client, every project getProjects returns carries task_count =
\* the number of its tasks, completed_tasks = the number of them with status
\* 'completed' and active_tasks = the number with status 'running'; the three
\* are 0 for a project without tasks, and completed_tasks + active_tasks never
\* exceeds task_count
C18_Stats ==
    (obs.op = "getProjects" /\ obs.conf /\ obs.ev = "ret") =>
        \A i \in DOMAIN obs.list :
            LET p == obs.list[i] IN
            /\ p.task_count = Len(p.tasks)
            /\ p.completed_tasks = Len(SelectSeq(p.tasks, IsCompleted))
            /\ p.active_tasks = Len(SelectSeq(p.tasks, IsRunning))
            /\ p.completed_tasks + p.active_tasks <= p.task_count
            /\ p.tasks = <<>> =>
                 (p.task_count = 0 /\ p.completed_tasks = 0 /\ p.active_tasks = 0)

\* three tasks, two completed and one running, came back as (3, 2, 1)
C18_Witness ==
    /\ obs.op = "getProjects" /\ obs.conf /\ obs.ev = "ret"
    /\ Len(obs.list) = 1
    /\ obs.list[1].tasks = <<"completed", "completed", "running">>
    /\ obs.list[1].task_count = 3
    /\ obs.list[1].completed_tasks = 2
    /\ obs.list[1].active_tasks = 1

\* ------------------------------------------------------------------ C19
\* the getCurrentUser call of the provider's effect is in flight
ProbePending ==
    \E c \in BagToSet(calls) : c.op = "getCurrentUser" /\ c.via = "effect"

\* C19: from the provider's first render until the effect's getCurrentUser
\* call resolves, loading is true in every state, whichever login, register
\* or signOut completes meanwhile, and a render of the guard in that interval
\* shows the loading view, with no content and no redirect
C19_LoadingUntilProbe ==
    (~mounted \/ ProbePending) =>
        /\ loading
        /\ (obs.ev = "render" /\ obs.op = "ProtectedRoute") =>
               (obs.view = "loading" /\ obs.redirect = "")

\* the probe is still out, a login has completed and set the user, and the
\* guard has just rendered the loading view
C19_Witness ==
    /\ ProbePending /\ loading
    /\ user # None /\ token # None
    /\ obs.ev = "render" /\ obs.op = "ProtectedRoute"
    /\ obs.view = "loading" /\ obs.redirect = ""

\* ------------------------------------------------------------------ C20
\* C20: with a client, getUserProfile returns absent when auth.getUser()
\* resolves no user or the store reports "row not found", returns the row when
\* it is found, and throws every other fault of the store; updateUserProfile
\* throws 'No authenticated user' when no user is resolved and throws every
\* fault of the store
C20_ProfileFaults ==
    /\ (obs.op = "getUserProfile" /\ obs.conf) =>
         /\ obs.res = None => (obs.ev = "ret" /\ ~obs.found /\ obs.queries = 0)
         /\ (obs.res # None /\ obs.fault = "") => (obs.ev = "ret" /\ obs.found)
         /\ (obs.res # None /\ obs.fault = NotFound) => (obs.ev = "ret" /\ ~obs.found)
         /\ (obs.res # None /\ obs.fault \notin {"", NotFound}) =>
                (obs.ev = "throw" /\ obs.err = obs.fault)
    /\ (obs.op = "updateUserProfile" /\ obs.conf) =>
         /\ obs.ident = None =>
                (obs.ev = "throw" /\ obs.err = Unauthenticated /\ obs.queries = 0)
         /\ (obs.ident # None /\ obs.fault = "") => (obs.ev = "ret" /\ obs.found)
         /\ (obs.ident # None /\ obs.fault # "") =>
                (obs.ev = "throw" /\ obs.err = obs.fault)

\* ------------------------------------------------------------------ C21
\* C21: when a getCurrentUser probe sent with a token T0 comes back with a
\* non-success response or fails in transport while AuthService holds another
\* token T1, stored by a login or register that completed in between, T1 stays
\* in the field and in the slot, and a user the provider holds stays
C21_StaleProbeFailure ==
    [][(/\ obs'.op = "getCurrentUser" /\ obs'.ev = "ret"
        /\ obs'.out \notin {"ok", "notoken"}
        /\ token # None /\ token # obs'.sent)
          => /\ token' = token
             /\ store' = store
             /\ user # None => user' # None]_vars

\* ------------------------------------------------------------------ C22
\* C22: whenever no request is in flight and the provider holds a user while
\* AuthService holds a token, the user is the account the backend associates
\* with that token; a late success of the initial probe, sent with an older
\* token, does not put the older token's account in place of the account
\* that logged in or registered meanwhile
C22_UserOfToken ==
    (calls = EmptyBag /\ user # None /\ token # None) => user = UserOf(token)

\* ------------------------------------------------------------------ C23
\* C23: the sign-in page pushes '/' exactly when a user is present and loading
\* is false, the guard pushes '/signin' exactly when a client exists, loading
\* is false and no user is present; in no state are both pushes enabled,
\* whatever the configuration, and in the state a push leaves behind the
\* page it leads to does not push back; nor does the guard push back after
\* handleSubmit's push that follows a completed login or register
C23_NoPingPong ==
    /\ \A c \in BOOLEAN :
           ~(SignIn(user, loading).redirect # ""
             /\ ProtectedRoute(user, loading, c).redirect # "")
    /\ (obs.ev = "render" /\ obs.op = "SignIn") =>
           /\ obs.redirect \in {"", "/"}
           /\ obs.redirect = "/" <=> (user # None /\ ~loading)
           /\ obs.redirect = "/" =>
                  (route = "/" /\ ProtectedRoute(user, loading, getSupabaseValue).redirect = "")
    /\ (obs.ev = "render" /\ obs.op = "ProtectedRoute") =>
           /\ obs.redirect \in {"", "/signin"}
           /\ obs.redirect = "/signin" <=> (obs.conf /\ user = None /\ ~loading)
           /\ obs.redirect = "/signin" =>
                  (route = "/signin" /\ SignIn(user, loading).redirect = "")
    /\ (obs.ev = "ret" /\ obs.op \in {"login", "register"}) =>
           (route = "/" /\ ProtectedRoute(user, loading, getSupabaseValue).redirect = "")

\* the guard has just sent a visitor without a user to the sign-in page, which
\* shows its form and stays
C23_Witness ==
    /\ obs.ev = "render" /\ obs.op = "ProtectedRoute" /\ obs.redirect = "/signin"
    /\ route = "/signin" /\ user = None /\ ~loading
    /\ SignIn(user, loading).view = "form"
    /\ SignIn(user, loading).redirect = ""

====
